---- MODULE Spec2Model ----
\* Model of ios_triangulation_detector: the collectors that fill the timeline
\* and the detection map, the sliding-window scan of scan_filesystem, the
\* heuristic classifier run_heuristics, and the reporting/exit logic of main.
\* Strings the code rewrites (root and relative paths) are sequences of
\* one-character strings; a path carried by an event is the list of its
\* '/'-separated components (path.split('/')), each a sequence of characters;
\* process identifiers in events are one-element sequences <<name>>.
EXTENDS Integers, Sequences, FiniteSets, TLC

\* ------------------------------------------------------------------
\* Program constants
\* ------------------------------------------------------------------
EventsMax == 10
TimeDeltaMax == 300
DetectionThreshold == 2
CocoaDelta == 978307200
NumPlists == 3

\* ------------------------------------------------------------------
\* Bounds and input sets
\* ------------------------------------------------------------------
MaxRows == 1
MaxWin == 4

\* an optional value v is <<v>>, and NULL / absent is <<>>
T0 == CocoaDelta
UnixTS == {T0}
\* (mtime, ctime, birthtime) of a stat()ed plist file; birthtime is
\* st_birthtime where the platform has it, else ctime (lines 131, 161)
StatChoices == {<<T0, T0, T0>>, <<T0, T0 + 400, T0>>, <<T0, T0 + 400, T0 + 400>>}
\* (mtime, ctime, birthtime) of a walked attachments directory
SmsStatChoices == {<<T0, T0, T0>>}
\* raw Cocoa-epoch values of a DataUsage ZPROCESS row
RawFirst == {0}
RawProc == {100}
Procs == {"BackupAgent", "nehelper"}
\* a ZPROCESS row (its Z_PK is its position) and a ZLIVEUSAGE row, whose
\* ZHASPROCESS may be NULL
ProcChoices == [name : Procs, ft : RawFirst, pt : RawProc]
LiveChoices == [hp : {<<>>} \cup {<<k>> : k \in 1..MaxRows}, ts : {<<100>>}]
\* iteration order of the netUsageBaseline dictionary
BaselinePkgs == <<"BackupAgent", "nehelper", "bluetoothd">>

ProcessIOCsExact == {"BackupAgent"}
ProcessIOCsImplicit == {"nehelper", "com.apple.WebKit.WebContent",
                        "powerd/com.apple.datausage.diagnostics",
                        "lockdownd/com.apple.datausage.security"}
NetTypes == {"NetTimestamp", "NetUsage", "NetFirst", "NetTimestamp2"}
FileTypes == {"M", "C", "B"}

\* self.paths: the three system plists of _check_system_plists
\* "private/var/mobile/Library/Preferences/com.apple.locationd.StatusBarIconManager.plist"
\* "private/var/mobile/Library/Preferences/com.apple.imservice.ids.FaceTime.plist"
\* "private/var/mobile/Library/Preferences/com.apple.ImageIO.plist"
PlistRels == <<<<"p", "r", "i", "v", "a", "t", "e", "/", "v", "a", "r", "/", "m", "o", "b", "i", "l", "e", "/", "L", "i", "b", "r", "a", "r", "y", "/", "P", "r", "e", "f", "e", "r", "e", "n", "c", "e", "s", "/", "c", "o", "m", ".", "a", "p", "p", "l", "e", ".", "l", "o", "c", "a", "t", "i", "o", "n", "d", ".", "S", "t", "a", "t", "u", "s", "B", "a", "r", "I", "c", "o", "n", "M", "a", "n", "a", "g", "e", "r", ".", "p", "l", "i", "s", "t">>,
               <<"p", "r", "i", "v", "a", "t", "e", "/", "v", "a", "r", "/", "m", "o", "b", "i", "l", "e", "/", "L", "i", "b", "r", "a", "r", "y", "/", "P", "r", "e", "f", "e", "r", "e", "n", "c", "e", "s", "/", "c", "o", "m", ".", "a", "p", "p", "l", "e", ".", "i", "m", "s", "e", "r", "v", "i", "c", "e", ".", "i", "d", "s", ".", "F", "a", "c", "e", "T", "i", "m", "e", ".", "p", "l", "i", "s", "t">>,
               <<"p", "r", "i", "v", "a", "t", "e", "/", "v", "a", "r", "/", "m", "o", "b", "i", "l", "e", "/", "L", "i", "b", "r", "a", "r", "y", "/", "P", "r", "e", "f", "e", "r", "e", "n", "c", "e", "s", "/", "c", "o", "m", ".", "a", "p", "p", "l", "e", ".", "I", "m", "a", "g", "e", "I", "O", ".", "p", "l", "i", "s", "t">>>>
\* "private/var/mobile/Library/SMS/Attachments"
SmsAttRel == <<"p", "r", "i", "v", "a", "t", "e", "/", "v", "a", "r", "/", "m", "o", "b", "i", "l", "e", "/", "L", "i", "b", "r", "a", "r", "y", "/", "S", "M", "S", "/", "A", "t", "t", "a", "c", "h", "m", "e", "n", "t", "s">>
\* root paths given on the command line: "/img", "/", "mobile/Library/SMS/Attachments"
RootPaths == {<<"/", "i", "m", "g">>, <<"/">>, <<"m", "o", "b", "i", "l", "e", "/", "L", "i", "b", "r", "a", "r", "y", "/", "S", "M", "S", "/", "A", "t", "t", "a", "c", "h", "m", "e", "n", "t", "s">>}
\* directories os.walk visits below the attachments directory: itself, "ff"
SmsWalk == <<<<>>, <<"f", "f">>>>
\* location_client_IOCs
LocationClientIOCs == {"com.apple.locationd.bundle-/System/Library/LocationBundles/IonosphereHarvest.bundle",
                       "com.apple.locationd.bundle-/System/Library/LocationBundles/WRMLinkSelection.bundle"}
\* iteration order of clients.plist
LocClients == <<"com.apple.locationd.bundle-/System/Library/LocationBundles/WRMLinkSelection.bundle">>
\* raw LocationTimeStopped value of a client, or none
RawLoc == {<<>>, <<50>>}

Min(S) == CHOOSE x \in S : \A y \in S : x <= y
MinOf(a, b) == IF a <= b THEN a ELSE b

\* ------------------------------------------------------------------
\* Helpers of IOSFilesystemChecker
\* ------------------------------------------------------------------
EmptyMap == [x \in {} |-> <<>>]

\* os.path.join(a, b) for a non-empty a and a relative b
PathJoin(a, b) == IF a[Len(a)] = "/" THEN a \o b ELSE a \o <<"/">> \o b

\* start positions of the occurrences of old in s found left to right from
\* position from, skipping overlaps (as str.replace does)
RECURSIVE Occurrences(_, _, _)
Occurrences(s, old, from) ==
    LET hits == {i \in from..(Len(s) - Len(old) + 1) : SubSeq(s, i, i + Len(old) - 1) = old}
    IN IF hits = {} THEN {}
       ELSE {Min(hits)} \cup Occurrences(s, old, Min(hits) + Len(old))

\* s.replace(old, '')
RemoveAll(s, old) ==
    LET occ == Occurrences(s, old, 1)
        Kept(e) == \A o \in occ : e[1] < o \/ e[1] >= o + Len(old)
        kept == SelectSeq([i \in DOMAIN s |-> <<i, s[i]>>], Kept)
    IN [i \in DOMAIN kept |-> kept[i][2]]

\* s.lstrip('/')
RECURSIVE LStripSlash(_)
LStripSlash(s) == IF s # <<>> /\ s[1] = "/" THEN LStripSlash(Tail(s)) ELSE s

\* s.count('/')
CountSlash(s) == Cardinality({i \in DOMAIN s : s[i] = "/"})

\* s.split('/')
RECURSIVE SplitSlash(_)
SplitSlash(s) ==
    IF \A i \in DOMAIN s : s[i] # "/" THEN <<s>>
    ELSE LET k == Min({i \in DOMAIN s : s[i] = "/"})
         IN <<SubSeq(s, 1, k - 1)>> \o SplitSlash(SubSeq(s, k + 1, Len(s)))

\* '/'.join(s.split('/')[-2:]), as its component list
LastTwo(s) ==
    LET c == SplitSlash(s) IN IF Len(c) < 2 THEN c ELSE SubSeq(c, Len(c) - 1, Len(c))

\* rel_path = path.replace(self.root_path, '').lstrip('/')
RelPath(path, root) == LStripSlash(RemoveAll(path, root))

\* rel_path of each system plist, per root path (lines 163-164)
PlistRelOf(r, i) == LastTwo(RelPath(PathJoin(r, PlistRels[i]), r))

\* root and rel_path of each walked attachments directory (lines 121-122)
SmsRootOf(r, w) == PathJoin(r, SmsAttRel) \o (IF SmsWalk[w] = <<>> THEN <<>> ELSE <<"/">> \o SmsWalk[w])
SmsRelOf(r, w) == RelPath(SmsRootOf(r, w), r)


\* append_map: map[timestamp] (created empty if missing) gets item appended
AppendMap(m, ts, item) ==
    IF ts \in DOMAIN m THEN [m EXCEPT ![ts] = Append(@, item)]
    ELSE m @@ (ts :> <<item>>)

RECURSIVE SortedKeys(_)
SortedKeys(S) ==
    IF S = {} THEN <<>>
    ELSE LET k == Min(S) IN <<k>> \o SortedKeys(S \ {k})

RECURSIVE FlattenFrom(_, _)
FlattenFrom(m, ks) ==
    IF ks = <<>> THEN <<>>
    ELSE [j \in 1..Len(m[Head(ks)]) |-> <<Head(ks), m[Head(ks)][j]>>]
         \o FlattenFrom(m, Tail(ks))

RECURSIVE SortedKeysDesc(_)
SortedKeysDesc(S) ==
    IF S = {} THEN <<>>
    ELSE LET k == CHOOSE x \in S : \A y \in S : y <= x IN <<k>> \o SortedKeysDesc(S \ {k})

\* mutant: keys iterated in descending order
ExpandDesc(tl) == FlattenFrom(tl, SortedKeysDesc(DOMAIN tl))

\* expanded_timeline: for k in sorted(self.timeline): for item in timeline[k]
Expand(tl) == FlattenFrom(tl, SortedKeys(DOMAIN tl))

\* mutant: detections reported in descending timestamp order
ReportLinesDesc(d) == FlattenFrom(d, SortedKeysDesc(DOMAIN d))

\* main's report loop: for k in sorted(results): for detection in results[k]
ReportLines(d) == FlattenFrom(d, SortedKeys(DOMAIN d))

\* ------------------------------------------------------------------
\* run_heuristics
\* ------------------------------------------------------------------
\* paths of the events handed to a single run_heuristics call
\* "Library/SMS/Attachments/ff/15"
AttDir == <<<<"L", "i", "b", "r", "a", "r", "y">>, <<"S", "M", "S">>, <<"A", "t", "t", "a", "c", "h", "m", "e", "n", "t", "s">>, <<"f", "f">>, <<"1", "5">>>>
\* "Library/SMS/Attachments/ff/15/a.jpg"
AttFile == <<<<"L", "i", "b", "r", "a", "r", "y">>, <<"S", "M", "S">>, <<"A", "t", "t", "a", "c", "h", "m", "e", "n", "t", "s">>, <<"f", "f">>, <<"1", "5">>, <<"a", ".", "j", "p", "g">>>>
\* "XLibrary/SMS/Attachments/ff"
XLibDir == <<<<"X", "L", "i", "b", "r", "a", "r", "y">>, <<"S", "M", "S">>, <<"A", "t", "t", "a", "c", "h", "m", "e", "n", "t", "s">>, <<"f", "f">>>>
\* "Preferences/a.plist"
PlainPath == <<<<"P", "r", "e", "f", "e", "r", "e", "n", "c", "e", "s">>, <<"a", ".", "p", "l", "i", "s", "t">>>>

LibraryCh == <<"L", "i", "b", "r", "a", "r", "y">>
SMSCh == <<"S", "M", "S">>
AttachmentsCh == <<"A", "t", "t", "a", "c", "h", "m", "e", "n", "t", "s">>

\* component c ends with "Library"
EndsWithLibrary(c) == Len(c) >= Len(LibraryCh) /\ SubSeq(c, Len(c) - Len(LibraryCh) + 1, Len(c)) = LibraryCh

\* 'Library/SMS/Attachments/' occurs in the path starting inside component k
\* (the marker holds '/', so it ends component k and is followed by the
\* components SMS and Attachments and by at least one more component)
HasMarkerAt(p, k) ==
    /\ k + 3 <= Len(p)
    /\ EndsWithLibrary(p[k]) /\ p[k + 1] = SMSCh /\ p[k + 2] = AttachmentsCh

\* 'Library/SMS/Attachments/' in path
ContainsMarker(p) == \E k \in 1..Len(p) : HasMarkerAt(p, k)

\* len(path.split('Library/SMS/Attachments/')[1].split('/')): the text after
\* the first occurrence up to the next one (whose component j contributes its
\* part before "Library"), or to the end
AttDepth(p) ==
    LET k == Min({i \in 1..Len(p) : HasMarkerAt(p, i)})
        nxt == {i \in (k + 3)..Len(p) : HasMarkerAt(p, i)}
    IN IF nxt = {} THEN Len(p) - (k + 2)
       ELSE (Min(nxt) - (k + 3)) + 1

AddDir(dirs, p, t) ==
    IF p \in DOMAIN dirs THEN [dirs EXCEPT ![p] = @ \cup {t}]
    ELSE dirs @@ (p :> {t})

\* mutant: an attachment file is skipped instead of aborting the window
RECURSIVE ClassifyNoAbort(_, _, _, _)
ClassifyNoAbort(win, i, dirs, cls) ==
    IF i > Len(win) THEN [abort |-> FALSE, dirs |-> dirs, cls |-> cls]
    ELSE LET ev == win[i][2]
             t == ev[1]
         IN IF t \in FileTypes
            THEN IF ContainsMarker(ev[2])
                 THEN IF AttDepth(ev[2]) <= 2
                      THEN ClassifyNoAbort(win, i + 1, AddDir(dirs, ev[2], t), cls)
                      ELSE ClassifyNoAbort(win, i + 1, dirs, cls)
                 ELSE ClassifyNoAbort(win, i + 1, dirs, cls \cup {"file"})
            ELSE IF t \in NetTypes
            THEN ClassifyNoAbort(win, i + 1, dirs, cls \cup {"net"})
            ELSE IF t = "LocationTimeStopped"
            THEN ClassifyNoAbort(win, i + 1, dirs, cls \cup {"location"})
            ELSE ClassifyNoAbort(win, i + 1, dirs, cls)

\* the classification loop over the window (lines 36-57)
RECURSIVE Classify(_, _, _, _)
Classify(win, i, dirs, cls) ==
    IF i > Len(win) THEN [abort |-> FALSE, dirs |-> dirs, cls |-> cls]
    ELSE LET ev == win[i][2]
             t == ev[1]
         IN IF t \in FileTypes
            THEN IF ContainsMarker(ev[2])
                 THEN IF AttDepth(ev[2]) <= 2
                      THEN Classify(win, i + 1, AddDir(dirs, ev[2], t), cls)
                      ELSE [abort |-> TRUE, dirs |-> dirs, cls |-> cls]
                 ELSE Classify(win, i + 1, dirs, cls \cup {"file"})
            ELSE IF t \in NetTypes
            THEN Classify(win, i + 1, dirs, cls \cup {"net"})
            ELSE IF t = "LocationTimeStopped"
            THEN Classify(win, i + 1, dirs, cls \cup {"location"})
            ELSE Classify(win, i + 1, dirs, cls)

\* mutant: detection threshold of 3 classes
HeuristicsThr3(win) ==
    LET r == Classify(win, 1, [x \in {} |-> {}], {})
    IN IF r.abort THEN <<>>
       ELSE IF \E p \in DOMAIN r.dirs : ("M" \notin r.dirs[p]) \/ ("C" \notin r.dirs[p])
       THEN <<>>
       ELSE LET cls == IF DOMAIN r.dirs # {} THEN r.cls \cup {"sms"} ELSE r.cls
            IN IF Cardinality(cls) >= 3
               THEN << <<win[1][1], <<"heuristics", win>>>> >>
               ELSE <<>>

\* mutant: an incomplete attachment path only withholds the sms class
HeuristicsLenient(win) ==
    LET r == Classify(win, 1, [x \in {} |-> {}], {})
        complete == {p \in DOMAIN r.dirs : "M" \in r.dirs[p] /\ "C" \in r.dirs[p]}
    IN IF r.abort THEN <<>>
       ELSE LET cls == IF complete # {} THEN r.cls \cup {"sms"} ELSE r.cls
            IN IF Cardinality(cls) >= DetectionThreshold
               THEN << <<win[1][1], <<"heuristics", win>>>> >>
               ELSE <<>>

\* the append_detection calls run_heuristics makes: 0 or 1 (timestamp, item)
Heuristics(win) ==
    LET r == Classify(win, 1, [x \in {} |-> {}], {})
    IN IF r.abort THEN <<>>
       ELSE IF \E p \in DOMAIN r.dirs : ("M" \notin r.dirs[p]) \/ ("C" \notin r.dirs[p])
       THEN <<>>
       ELSE LET cls == IF DOMAIN r.dirs # {} THEN r.cls \cup {"sms"} ELSE r.cls
            IN IF Cardinality(cls) >= DetectionThreshold
               THEN << <<win[1][1], <<"heuristics", win>>>> >>
               ELSE <<>>

RECURSIVE AppendAll(_, _)
AppendAll(m, s) ==
    IF s = <<>> THEN m
    ELSE AppendAll(AppendMap(m, Head(s)[1], Head(s)[2]), Tail(s))

RunHeuristics(win, d) == AppendAll(d, Heuristics(win))

\* ------------------------------------------------------------------
\* sliding window of scan_filesystem (lines 103-114)
\* ------------------------------------------------------------------
\* range(len(expanded_timeline) - events_max)
AnchorRange(n) == 0..(n - EventsMax - 1)

\* mutant: the first event past the time bound is kept
TrimWindowInclusive(exp, i) ==
    LET w == SubSeq(exp, i + 1, MinOf(i + EventsMax, Len(exp)))
        t0 == exp[i + 1][1]
        cut == {j \in 1..Len(w) : w[j][1] - t0 > TimeDeltaMax}
    IN IF cut = {} THEN w ELSE SubSeq(w, 1, Min(cut))

TrimWindow(exp, i) ==
    LET w == SubSeq(exp, i + 1, MinOf(i + EventsMax, Len(exp)))
        t0 == exp[i + 1][1]
        cut == {j \in 1..Len(w) : w[j][1] - t0 > TimeDeltaMax}
    IN IF cut = {} THEN w ELSE SubSeq(w, 1, Min(cut) - 1)

\* the run_heuristics calls in anchor order
WindowCalls(exp) ==
    LET R == AnchorRange(Len(exp))
    IN [k \in 1..Cardinality(R) |-> [anchor |-> k - 1, win |-> TrimWindow(exp, k - 1)]]

RECURSIVE HeurAll(_, _)
HeurAll(cs, k) ==
    IF k > Len(cs) THEN <<>> ELSE Heuristics(cs[k].win) \o HeurAll(cs, k + 1)

\* ------------------------------------------------------------------
\* State
\* ------------------------------------------------------------------
VARIABLES
    pc,         \* position in main / scan_filesystem
    argv,       \* command line: no argument, not a directory, a directory
    rootPath,   \* root_path given on the command line
    walkIdx,    \* next directory of the os.walk of _check_sms_attachments
    locIdx,     \* next clients.plist entry of the locationd loop
    smsDir,     \* os.path.isdir(paths['sms_attachments_dir'])
    plistIdx,   \* next system plist of _check_system_plists
    pkgIdx,     \* next netUsageBaseline entry
    dbProcs,    \* history: the ZPROCESS rows of DataUsage.sqlite
    pending,    \* rows of the DataUsage query not yet read by the loop
    tl,         \* self.timeline : timestamp -> list of events
    det,        \* self.detections : timestamp -> list of detections
    appended,   \* history: every append_timeline call, in call order
    recorded,   \* history: every append_detection call, in call order
    records,    \* history: artifact records handed to the exact matcher
    expanded,   \* expanded_timeline of scan_filesystem
    calls,      \* history: run_heuristics calls of the sliding window
    report,     \* lines printed by main (timestamp, detection)
    exitCode,   \* process exit status (-1 while running)
    returned,   \* scan_filesystem returned its detections to main
    hwin        \* window handed to a single run_heuristics call

vars == <<pc, argv, rootPath, walkIdx, locIdx, smsDir, plistIdx, pkgIdx, dbProcs, pending, tl, det, appended,
          recorded, records, expanded, calls, report, exitCode, returned, hwin>>

Init ==
    /\ pc = "main"
    /\ argv \in {"none", "notdir", "dir"}
    /\ rootPath \in RootPaths
    /\ walkIdx = 1
    /\ locIdx = 1
    /\ smsDir \in BOOLEAN
    /\ plistIdx = 1
    /\ pkgIdx = 1
    /\ dbProcs = <<>>
    /\ pending = {}
    /\ tl = EmptyMap
    /\ det = EmptyMap
    /\ appended = <<>>
    /\ recorded = <<>>
    /\ records = <<>>
    /\ expanded = <<>>
    /\ calls = <<>>
    /\ report = <<>>
    /\ exitCode = -1
    /\ returned = FALSE
    /\ hwin = <<>>

\* main, lines 11-33: argument checks (both early returns exit with status 0)
MainArgs ==
    /\ pc = "main"
    /\ IF argv = "dir"
       THEN pc' = "scan" /\ UNCHANGED exitCode
       ELSE pc' = "exited" /\ exitCode' = 0
    /\ UNCHANGED <<rootPath, walkIdx, locIdx, argv, smsDir, plistIdx, pkgIdx, dbProcs, pending, tl, det, appended,
                   recorded, records, expanded, calls, report, returned, hwin>>

\* scan_filesystem lines 87-89: the SMS attachments directory check (its
\* FileNotFoundError is caught by main, which prints it and returns)
ScanStart ==
    /\ pc = "scan"
    /\ IF smsDir
       THEN pc' = "sms" /\ UNCHANGED exitCode
       ELSE pc' = "exited" /\ exitCode' = 0
    /\ UNCHANGED <<rootPath, walkIdx, locIdx, argv, smsDir, plistIdx, pkgIdx, dbProcs, pending, tl, det, appended,
                   recorded, records, expanded, calls, report, returned, hwin>>

AppendTimelineAll(m, s) == AppendAll(m, s)

\* stat() of a file or directory: M, C, B events for rel_path
StatEvents(st, rel) ==
    << <<st[1], <<"M", rel>>>>, <<st[2], <<"C", rel>>>>, <<st[3], <<"B", rel>>>> >>

\* _check_sms_attachments lines 121-136: one directory of the os.walk; it
\* is skipped when its rel_path has at least 3 '/'
SmsDirStat ==
    /\ pc = "sms"
    /\ \E st \in SmsStatChoices :
         LET rel == SmsRelOf(rootPath, walkIdx)
             evs == IF CountSlash(rel) >= 3 THEN <<>> ELSE StatEvents(st, SplitSlash(rel))
         IN /\ tl' = AppendTimelineAll(tl, evs)
            /\ appended' = appended \o evs
    /\ walkIdx' = walkIdx + 1
    /\ pc' = IF walkIdx = Len(SmsWalk) THEN "plists" ELSE "sms"
    /\ UNCHANGED <<rootPath, locIdx, argv, smsDir, plistIdx, pkgIdx, dbProcs, pending, det,
                   recorded, records, expanded, calls, report, exitCode, returned, hwin>>

\* _check_system_plists: one plist file (absent, or stat()ed: M, C, B)
StatPlist ==
    /\ pc = "plists"
    /\ \E st \in StatChoices \cup {<<>>} :
         LET p == PlistRelOf(rootPath, plistIdx)
             evs == IF st = <<>> THEN <<>> ELSE StatEvents(st, p)
         IN /\ tl' = AppendTimelineAll(tl, evs)
            /\ appended' = appended \o evs
    /\ plistIdx' = plistIdx + 1
    /\ pc' = IF plistIdx = NumPlists THEN "baseline" ELSE "plists"
    /\ UNCHANGED <<rootPath, walkIdx, locIdx, argv, smsDir, pkgIdx, dbProcs, pending, det, recorded, records,
                   expanded, calls, report, exitCode, returned, hwin>>

\* _check_analytics_data lines 187-191: one netUsageBaseline entry
BaselineEffect(pkg, t) ==
    [dets |-> IF pkg \in ProcessIOCsExact
              THEN << <<t, <<"exact", "NetUsage", pkg>>>> >> ELSE <<>>,
     evs  |-> IF pkg \in ProcessIOCsImplicit \/ pkg \in ProcessIOCsExact
              THEN << <<t, <<"NetUsage", <<pkg>>>>>> >> ELSE <<>>]

BaselineEntry ==
    /\ pc = "baseline"
    /\ \E ot \in {<<>>} \cup {<<t>> : t \in UnixTS} :
         LET pkg == BaselinePkgs[pkgIdx]
             t == ot[1]
             eff == BaselineEffect(pkg, t)
         IN IF ot = <<>>
            THEN UNCHANGED <<tl, det, appended, recorded, records>>
            ELSE /\ det' = AppendAll(det, eff.dets)
                 /\ recorded' = recorded \o eff.dets
                 /\ tl' = AppendAll(tl, eff.evs)
                 /\ appended' = appended \o eff.evs
                 /\ records' = Append(records, [src |-> "plist", id |-> pkg, ts |-> t])
    /\ pkgIdx' = pkgIdx + 1
    /\ pc' = IF pkgIdx = Len(BaselinePkgs) THEN "db" ELSE "baseline"
    /\ UNCHANGED <<rootPath, walkIdx, locIdx, argv, smsDir, plistIdx, dbProcs, pending, expanded, calls, report,
                   exitCode, returned, hwin>>

\* SQL three-valued "k IN (SELECT ZHASPROCESS FROM ZLIVEUSAGE)"
InLive(k, lv) ==
    IF \E l \in lv : l.hp = <<k>> THEN "true"
    ELSE IF \E l \in lv : l.hp = <<>> THEN "null"
    ELSE "false"

\* the rows of the query of lines 209-212: ZLIVEUSAGE LEFT JOIN ZPROCESS,
\* UNION (duplicates removed) the ZPROCESS rows whose Z_PK NOT IN the
\* ZHASPROCESS column, a WHERE that keeps a row only when it is TRUE
QueryRows(ps, lv) ==
    {[name |-> <<ps[x[2]].name>>, ft |-> <<ps[x[2]].ft>>, pt |-> <<ps[x[2]].pt>>,
      pk |-> <<x[2]>>, lt |-> x[1].ts] :
        x \in {y \in lv \X DOMAIN ps : y[1].hp = <<y[2]>>}}
    \cup
    {[name |-> <<>>, ft |-> <<>>, pt |-> <<>>, pk |-> <<>>, lt |-> l.ts] :
        l \in {m \in lv : \A k \in DOMAIN ps : m.hp # <<k>>}}
    \cup
    {[name |-> <<ps[k].name>>, ft |-> <<ps[k].ft>>, pt |-> <<ps[k].pt>>,
      pk |-> <<k>>, lt |-> <<>>] :
        k \in {j \in DOMAIN ps : InLive(j, lv) = "false"}}

\* _check_analytics_data lines 214-223: one DataUsage row
DbRowEffect(procname, ft, pt, lt) ==
    IF procname \in ProcessIOCsExact
    THEN [dets |-> << <<CocoaDelta + ft, <<"exact", "NetFirst", procname>>>>,
                      <<CocoaDelta + pt, <<"exact", "NetTimestamp", procname>>>> >>
                   \o (IF lt # <<>>
                       THEN << <<CocoaDelta + lt[1], <<"exact", "NetTimestamp2", procname>>>> >>
                       ELSE <<>>),
          evs |-> <<>>]
    ELSE IF procname \in ProcessIOCsImplicit
    THEN [dets |-> <<>>,
          evs |-> << <<CocoaDelta + ft, <<"NetFirst", <<procname>>>>>>,
                     <<CocoaDelta + pt, <<"NetTimestamp", <<procname>>>>>> >>
                  \o (IF lt # <<>>
                      THEN << <<CocoaDelta + lt[1], <<"NetTimestamp2", <<procname>>>>>> >>
                      ELSE <<>>)]
    ELSE [dets |-> <<>>, evs |-> <<>>]

\* _check_analytics_data lines 195-212: the DataUsage database and the
\* execute() of its query
DbOpen ==
    /\ pc = "db"
    /\ \E n \in 0..MaxRows : \E ps \in [1..n -> ProcChoices] : \E lv \in SUBSET LiveChoices :
         /\ dbProcs' = ps
         /\ pending' = QueryRows(ps, lv)
    /\ pc' = "dbrows"
    /\ UNCHANGED <<rootPath, walkIdx, locIdx, argv, smsDir, plistIdx, pkgIdx, tl, det, appended,
                   recorded, records, expanded, calls, report, exitCode, returned, hwin>>

\* lines 208-223: one row of the result, in the order SQLite returns them
DbRow ==
    /\ pc = "dbrows"
    /\ \E row \in pending :
         /\ pending' = pending \ {row}
         /\ IF row.name = <<>>
            THEN UNCHANGED <<tl, det, appended, recorded, records>>
            ELSE LET procname == row.name[1]
                     eff == DbRowEffect(procname, row.ft[1], row.pt[1], row.lt)
                 IN /\ det' = AppendAll(det, eff.dets)
                    /\ recorded' = recorded \o eff.dets
                    /\ tl' = AppendAll(tl, eff.evs)
                    /\ appended' = appended \o eff.evs
                    /\ records' = Append(records, [src |-> "db", id |-> procname,
                                                   ts |-> CocoaDelta + row.ft[1]])
    /\ UNCHANGED <<pc, rootPath, walkIdx, locIdx, argv, smsDir, plistIdx, pkgIdx, dbProcs, expanded,
                   calls, report, exitCode, returned, hwin>>

\* _check_analytics_data lines 242-245: one clients.plist entry (the first
\* one ends the DataUsage loop)
LocationEntry ==
    /\ \/ pc = "dbrows" /\ pending = {}
       \/ pc = "loc"
    /\ \E lt \in RawLoc :
         LET pkg == LocClients[locIdx]
             evs == IF pkg \in LocationClientIOCs /\ lt # <<>>
                    THEN << <<CocoaDelta + lt[1], <<"LocationTimeStopped", <<pkg>>>>>> >>
                    ELSE <<>>
         IN /\ tl' = AppendTimelineAll(tl, evs)
            /\ appended' = appended \o evs
    /\ locIdx' = locIdx + 1
    /\ pc' = IF locIdx = Len(LocClients) THEN "sweep" ELSE "loc"
    /\ UNCHANGED <<rootPath, walkIdx, argv, smsDir, plistIdx, pkgIdx, dbProcs, pending, det,
                   recorded, records, expanded, calls, report, exitCode, returned, hwin>>

\* scan_filesystem lines 96-116: expanded timeline and the sliding window
Sweep ==
    /\ pc = "sweep"
    /\ LET exp == Expand(tl)
           cs == WindowCalls(exp)
           hs == HeurAll(cs, 1)
       IN /\ expanded' = exp
          /\ calls' = cs
          /\ det' = AppendAll(det, hs)
          /\ recorded' = recorded \o hs
    /\ pc' = "report"
    /\ returned' = TRUE
    /\ UNCHANGED <<rootPath, walkIdx, locIdx, argv, smsDir, plistIdx, pkgIdx, dbProcs, pending, tl, appended, records,
                   report, exitCode, hwin>>

\* main lines 41-57
Report ==
    /\ pc = "report"
    /\ report' = ReportLines(det)
    /\ exitCode' = IF DOMAIN det # {} THEN 2 ELSE 0
    /\ pc' = "exited"
    /\ UNCHANGED <<rootPath, walkIdx, locIdx, argv, smsDir, plistIdx, pkgIdx, dbProcs, pending, tl, det, appended,
                   recorded, records, expanded, calls, returned, hwin>>

Next == MainArgs \/ ScanStart \/ SmsDirStat \/ StatPlist \/ BaselineEntry \/ DbOpen \/ DbRow
        \/ LocationEntry \/ Sweep \/ Report

Spec == Init /\ [][Next]_vars


\* ------------------------------------------------------------------
\* A single run_heuristics call on a window the sliding scan can produce:
\* ascending timestamps within 300 s of the first one, at most W events.
\* ------------------------------------------------------------------
HEvents == {<<"M", AttDir>>, <<"C", AttDir>>, <<"B", AttDir>>, <<"M", AttFile>>,
            <<"M", XLibDir>>, <<"M", PlainPath>>, <<"NetUsage", <<"nehelper">>>>,
            <<"LocationTimeStopped", <<"com.apple.locationd.bundle-/System/Library/LocationBundles/WRMLinkSelection.bundle">>>>}
HTimes == {T0, T0 + 100}
HTimesSorted(n) == {t \in [1..n -> HTimes] : \A i \in 1..(n - 1) : t[i] <= t[i + 1]}
HInit ==
    /\ pc = "heur"
    /\ argv = "dir"
    /\ rootPath = <<"/", "i", "m", "g">>
    /\ walkIdx = 1
    /\ locIdx = 1
    /\ smsDir = TRUE
    /\ plistIdx = 1
    /\ pkgIdx = 1
    /\ dbProcs = <<>>
    /\ pending = {}
    /\ tl = EmptyMap
    /\ det = EmptyMap
    /\ appended = <<>>
    /\ recorded = <<>>
    /\ records = <<>>
    /\ expanded = <<>>
    /\ calls = <<>>
    /\ report = <<>>
    /\ exitCode = -1
    /\ returned = FALSE
    /\ \E n \in 1..MaxWin : \E t \in HTimesSorted(n), e \in [1..n -> HEvents] :
         hwin = [i \in 1..n |-> <<t[i], e[i]>>]

\* run_heuristics(event_window), lines 29-70
HRun ==
    /\ pc = "heur"
    /\ det' = RunHeuristics(hwin, det)
    /\ recorded' = recorded \o Heuristics(hwin)
    /\ pc' = "heurdone"
    /\ UNCHANGED <<rootPath, walkIdx, locIdx, argv, smsDir, plistIdx, pkgIdx, dbProcs, pending, tl, appended, records,
                   expanded, calls, report, exitCode, returned, hwin>>

HNext == HRun

HSpec == HInit /\ [][HNext]_vars

\* ------------------------------------------------------------------
\* Properties of the scan
\* ------------------------------------------------------------------
KeysOf(s) == {s[i][1] : i \in DOMAIN s}
WithKey(s, t) == LET IsKey(e) == e[1] = t IN SelectSeq(s, IsKey)
SortedAsc(s) == \A i \in 1..(Len(s) - 1) : s[i][1] <= s[i + 1][1]

\* C1: the expanded timeline the sliding window reads is sorted ascending by
\* timestamp, holds every appended (timestamp, event) pair exactly once, and
\* keeps the append order among events sharing a timestamp.
TimelineOrdered ==
    pc = "report" =>
        /\ SortedAsc(expanded)
        /\ Len(expanded) = Len(appended)
        /\ \A t \in KeysOf(appended) : WithKey(expanded, t) = WithKey(appended, t)

TimelineOrderedWitness ==
    /\ pc = "report"
    /\ Cardinality(KeysOf(expanded)) >= 2
    /\ \E t \in KeysOf(expanded) : Len(WithKey(expanded, t)) >= 2
    /\ Len(expanded) >= EventsMax

\* C2: the sliding window is evaluated at every anchor 0..n-W inclusive and
\* at no other anchor.
WindowAnchors ==
    pc = "report" =>
        {calls[k].anchor : k \in DOMAIN calls} = 0..(Len(expanded) - EventsMax)

\* C3: every window passed to run_heuristics is the longest prefix of the W
\* events from its anchor whose timestamps are within 300 s of the anchor's,
\* and holds between 1 and W events.
WindowTrim ==
    pc = "report" =>
        \A k \in DOMAIN calls :
            LET a == calls[k].anchor
                w == calls[k].win
                t0 == expanded[a + 1][1]
            IN /\ 1 <= Len(w) /\ Len(w) <= EventsMax
               /\ w = SubSeq(expanded, a + 1, a + Len(w))
               /\ \A j \in 1..Len(w) : w[j][1] <= t0 + TimeDeltaMax
               /\ Len(w) < EventsMax => expanded[a + Len(w) + 1][1] > t0 + TimeDeltaMax

WindowTrimWitness ==
    /\ pc = "report"
    /\ \E k \in DOMAIN calls : Len(calls[k].win) < EventsMax
    /\ \E k \in DOMAIN calls : Len(calls[k].win) = EventsMax

IsExact(d, id) == Len(d) = 3 /\ d[1] = "exact" /\ d[3] = id

\* C7: an artifact record whose identifier is in the exact list gets an Exact
\* detection at its timestamp and an Event in the timeline; an implicit-only
\* identifier gets timeline Events and no Exact detection; any other
\* identifier gets neither.
ExactRouting ==
    pc = "report" =>
        \A i \in DOMAIN records :
            LET r == records[i]
                hasDet == \E j \in DOMAIN recorded :
                              recorded[j][1] = r.ts /\ IsExact(recorded[j][2], r.id)
                anyDet == \E j \in DOMAIN recorded : IsExact(recorded[j][2], r.id)
                hasEv == \E j \in DOMAIN appended :
                              appended[j][1] = r.ts /\ appended[j][2][2] = <<r.id>>
                anyEv == \E j \in DOMAIN appended : appended[j][2][2] = <<r.id>>
            IN /\ r.id \in ProcessIOCsExact => hasDet /\ hasEv
               /\ r.id \in ProcessIOCsImplicit \ ProcessIOCsExact => anyEv /\ ~anyDet
               /\ r.id \notin ProcessIOCsImplicit \cup ProcessIOCsExact => ~anyEv /\ ~anyDet

\* C8: a completed scan in which BackupAgent appears in the baseline plist or
\* as a process name in the DataUsage database returns an Exact detection
\* for BackupAgent.
BackupAgentDetected ==
    returned =>
        ((\/ \E i \in DOMAIN records : records[i].id = "BackupAgent" /\ records[i].src = "plist"
          \/ \E k \in DOMAIN dbProcs : dbProcs[k].name = "BackupAgent") =>
            \E k \in DOMAIN det : \E j \in DOMAIN det[k] : IsExact(det[k][j], "BackupAgent"))

\* C9: main exits with 2 exactly when the scan completed with a detection,
\* and with 0 only when the scan completed with none.
ExitOutcome ==
    pc = "exited" =>
        /\ (exitCode = 2) <=> (returned /\ DOMAIN det # {})
        /\ (exitCode = 0) => (returned /\ DOMAIN det = {})

\* C10: main prints the detections in ascending timestamp order, every
\* recorded detection once, those sharing a timestamp in recording order.
ReportOrdered ==
    pc = "exited" /\ returned =>
        /\ SortedAsc(report)
        /\ Len(report) = Len(recorded)
        /\ \A t \in KeysOf(recorded) : WithKey(report, t) = WithKey(recorded, t)

ReportOrderedWitness ==
    /\ pc = "exited"
    /\ Cardinality(KeysOf(report)) >= 2
    /\ \E j \in DOMAIN report : report[j][2][1] = "heuristics"
    /\ \E t \in KeysOf(report) : Len(WithKey(report, t)) >= 2

\* ------------------------------------------------------------------
\* Properties of run_heuristics
\* ------------------------------------------------------------------
IsFileEv(e) == e[1] \in FileTypes
\* some file event of the window is an attachment file (depth > 2)
DeepAtt(w) == \E i \in DOMAIN w : IsFileEv(w[i][2]) /\ ContainsMarker(w[i][2][2])
                                   /\ AttDepth(w[i][2][2]) > 2
AttPaths(w) == {w[i][2][2] : i \in {j \in DOMAIN w : IsFileEv(w[j][2]) /\ ContainsMarker(w[j][2][2])}}
HasTyped(w, t, p) == \E i \in DOMAIN w : w[i][2] = <<t, p>>
AllComplete(w) == \A p \in AttPaths(w) : HasTyped(w, "M", p) /\ HasTyped(w, "C", p)
OtherClasses(w) ==
    (IF \E i \in DOMAIN w : IsFileEv(w[i][2]) /\ ~ContainsMarker(w[i][2][2])
     THEN {"file"} ELSE {})
    \cup (IF \E i \in DOMAIN w : w[i][2][1] \in NetTypes THEN {"net"} ELSE {})
    \cup (IF \E i \in DOMAIN w : w[i][2][1] = "LocationTimeStopped" THEN {"location"} ELSE {})
WinClasses(w) == OtherClasses(w) \cup (IF AttPaths(w) # {} THEN {"sms"} ELSE {})
OneDetection(w) == det = (w[1][1] :> << <<"heuristics", w>> >>)

\* C4: a window that is not disqualified and whose attachment paths all have
\* Modified and AttrChanged records exactly one Heuristic detection, keyed at
\* its first timestamp with the window as evidence, iff at least 2 classes
\* of {file, net, location, sms} are present; otherwise none.
DetectionRule ==
    pc = "heurdone" /\ ~DeepAtt(hwin) /\ AllComplete(hwin) =>
        IF Cardinality(WinClasses(hwin)) >= 2 THEN OneDetection(hwin)
        ELSE det = EmptyMap

DetectionRuleWitness ==
    /\ pc = "heurdone" /\ ~DeepAtt(hwin) /\ AllComplete(hwin)
    /\ Cardinality(WinClasses(hwin)) = 2
    /\ hwin[1][1] # hwin[Len(hwin)][1]
    /\ OneDetection(hwin)

\* C5: a window holding a file event on an attachment path with more than 2
\* components after the marker records no detection, whatever else it holds.
PathDepthDisqualifies ==
    pc = "heurdone" /\ DeepAtt(hwin) => det = EmptyMap

PathDepthDisqualifiesWitness ==
    /\ pc = "heurdone" /\ DeepAtt(hwin)
    /\ Cardinality(OtherClasses(hwin)) >= 2
    /\ AttPaths(hwin) = {AttFile}

\* C6 (as stated): a window where an attachment path has a Modified but no
\* AttrChanged event still records a Heuristic detection when its other
\* classes number at least 2.
SmsIncompleteStillDetects ==
    pc = "heurdone" /\ ~DeepAtt(hwin)
    /\ (\E p \in AttPaths(hwin) : HasTyped(hwin, "M", p) /\ ~HasTyped(hwin, "C", p))
    /\ Cardinality(OtherClasses(hwin)) >= 2
    => det # EmptyMap

\* C6 (amended): a window where an attachment path lacks Modified or
\* AttrChanged records no detection at all, even when its other classes
\* number at least 2; sms is asserted only for windows whose attachment
\* paths all have both.
SmsIncompleteSuppresses ==
    pc = "heurdone"
    /\ (\E p \in AttPaths(hwin) : ~HasTyped(hwin, "M", p) \/ ~HasTyped(hwin, "C", p))
    => det = EmptyMap

SmsIncompleteSuppressesWitness ==
    /\ pc = "heurdone" /\ ~DeepAtt(hwin)
    /\ \E p \in AttPaths(hwin) : HasTyped(hwin, "M", p) /\ ~HasTyped(hwin, "C", p)
    /\ Cardinality(OtherClasses(hwin)) >= 2

====
